---------------------------- MODULE Spec2Model ----------------------------
(***************************************************************************)
(* videostream/models.py: the Video base model (publish-date latch, slug   *)
(* uniqueness, modified_date bookkeeping, permalink), its variants         *)
(* BasicVideo / EmbedVideo / FlashVideo, the HTML5Video payload rows and   *)
(* FlashVideo.get_player_size.                                             *)
(*                                                                         *)
(* Timestamps are day numbers counted from 2010-12-30 (day 0); None is the *)
(* null publish_date / the modified_date of an instance never saved.       *)
(* Strings that the code splits (VIDEOSTREAM_SIZE) are sequences of        *)
(* one-character strings.                                                  *)
(***************************************************************************)
EXTENDS Integers, Sequences, FiniteSets, TLC

VARIABLES now, db, html5, inst, ret, size_setting

vars == <<now, db, html5, inst, ret, size_setting>>

(* ------------------------------ bounds -------------------------------- *)

MaxTime == 2

MaxPayloads == 2

MaxLen == 5

Contexts == {1, 2}

Slugs == {"intro-clip", "tutorial"}

Kinds == {"Video", "BasicVideo", "EmbedVideo", "FlashVideo"}

Chars == {"1", "2", "x", "b"}

(* --------------------------- program values --------------------------- *)

None == -1

NoId == 0

OGG == 0

WEBM == 1

MP4 == 2

FLASH == 3

Unset == <<"<unset>">>

\* A Video instance in memory; id = NoId until the first successful save.
NoInst ==
    [id |-> NoId, kind |-> "none", slug |-> "", is_public |-> FALSE,
     publish_date |-> None, modified_date |-> None]

NoRet == [op |-> "none", ctx |-> 0, status |-> "ok", val |-> <<>>,
          pre |-> NoInst, t0 |-> 0]

Row(m) ==
    [kind |-> m.kind, slug |-> m.slug, is_public |-> m.is_public,
     publish_date |-> m.publish_date, modified_date |-> m.modified_date]

Ids == 1..Len(db)

(* ------------------------------ Video.save ---------------------------- *)

\* line 85: publish_date == None and is_public
LatchFiresNoNullTest(m) == m.is_public

LatchFiresWhenNull(m) == m.publish_date = None

LatchFires(m) == m.publish_date = None /\ m.is_public

\* lines 84-86 with the clock read t1 at line 84 and t2 at line 86
ApplyLatch(m, t1, t2) ==
    LET m1 == [m EXCEPT !.modified_date = t1]
    IN  IF LatchFires(m1) THEN [m1 EXCEPT !.publish_date = t2] ELSE m1

\* modified_date is auto_now: the store's pre_save assigns the clock again
AutoNowOnAddOnly(m, t3) ==
    IF m.id = NoId THEN [m EXCEPT !.modified_date = t3] ELSE m

AutoNow(m, t3) == [m EXCEPT !.modified_date = t3]

\* slug is unique=True on the Video table, which holds a row for every
\* variant: another row with the same slug makes the write fail
SlugConflictNever(m) == FALSE

SlugConflict(m) == \E i \in Ids : i # m.id /\ db[i].slug = m.slug

\* the fields after the call, whether or not the store accepted the write
AfterSave(m, t1, t2, t3) == AutoNow(ApplyLatch(m, t1, t2), t3)

Save(c) ==
    /\ inst[c].kind # "none"
    /\ \E t1 \in now..MaxTime : \E t2 \in t1..MaxTime : \E t3 \in t2..MaxTime :
        LET m == AfterSave(inst[c], t1, t2, t3)
        IN  /\ now' = t3
            /\ IF SlugConflict(m)
               THEN /\ db' = db
                    /\ inst' = [inst EXCEPT ![c] = m]
                    /\ ret' = [op |-> "save", ctx |-> c,
                               status |-> "IntegrityError", val |-> <<>>,
                               pre |-> inst[c], t0 |-> t1]
               ELSE /\ IF m.id = NoId
                       THEN /\ db' = Append(db, Row(m))
                            /\ inst' = [inst EXCEPT
                                          ![c] = [m EXCEPT !.id = Len(db) + 1]]
                       ELSE /\ db' = [db EXCEPT ![m.id] = Row(m)]
                            /\ inst' = [inst EXCEPT ![c] = m]
                    /\ ret' = [op |-> "save", ctx |-> c, status |-> "ok",
                               val |-> <<>>, pre |-> inst[c], t0 |-> t1]
    /\ UNCHANGED <<html5, size_setting>>

(* ------------------- the editor / form layer (callers) ---------------- *)

New(c, k, s, p, pd) ==
    /\ inst' = [inst EXCEPT ![c] =
                  [id |-> NoId, kind |-> k, slug |-> s, is_public |-> p,
                   publish_date |-> pd, modified_date |-> None]]
    /\ ret' = [NoRet EXCEPT !.op = "new", !.ctx = c]
    /\ UNCHANGED <<now, db, html5, size_setting>>

Load(c, i) ==
    /\ i \in Ids
    /\ inst' = [inst EXCEPT ![c] =
                  [id |-> i, kind |-> db[i].kind, slug |-> db[i].slug,
                   is_public |-> db[i].is_public,
                   publish_date |-> db[i].publish_date,
                   modified_date |-> db[i].modified_date]]
    /\ ret' = [NoRet EXCEPT !.op = "load", !.ctx = c]
    /\ UNCHANGED <<now, db, html5, size_setting>>

SetPublic(c, p) ==
    /\ inst[c].kind # "none"
    /\ inst[c].is_public # p
    /\ inst' = [inst EXCEPT ![c].is_public = p]
    /\ ret' = [NoRet EXCEPT !.op = "set_is_public", !.ctx = c]
    /\ UNCHANGED <<now, db, html5, size_setting>>

SetSlug(c, s) ==
    /\ inst[c].kind # "none"
    /\ inst[c].slug # s
    /\ inst' = [inst EXCEPT ![c].slug = s]
    /\ ret' = [NoRet EXCEPT !.op = "set_slug", !.ctx = c]
    /\ UNCHANGED <<now, db, html5, size_setting>>

(* ----------------------- Video.get_absolute_url ---------------------- *)

\* day number -> <<year, month, day>> of the proleptic Gregorian calendar
Civil(t) ==
    LET z == t + 14973 + 719468
        era == z \div 146097
        doe == z - era * 146097
        yoe == (doe - doe \div 1460 + doe \div 36524 - doe \div 146096) \div 365
        doy == doe - (365 * yoe + yoe \div 4 - yoe \div 100)
        mp == (5 * doy + 2) \div 153
        d == doy - (153 * mp + 2) \div 5 + 1
        mo == IF mp < 10 THEN mp + 3 ELSE mp - 9
        y == yoe + era * 400 + (IF mo <= 2 THEN 1 ELSE 0)
    IN  <<y, mo, d>>

Digit(n) ==
    CASE n = 0 -> "0" [] n = 1 -> "1" [] n = 2 -> "2" [] n = 3 -> "3"
      [] n = 4 -> "4" [] n = 5 -> "5" [] n = 6 -> "6" [] n = 7 -> "7"
      [] n = 8 -> "8" [] n = 9 -> "9"

RECURSIVE ToStr(_)
ToStr(n) == IF n < 10 THEN Digit(n) ELSE ToStr(n \div 10) \o Digit(n % 10)

\* strftime("%Y")
StrfY(t) == ToStr(Civil(t)[1])

\* strftime("%b")
StrfB(t) ==
    <<"Jan", "Feb", "Mar", "Apr", "May", "Jun",
      "Jul", "Aug", "Sep", "Oct", "Nov", "Dec">>[Civil(t)[2]]

\* strftime("%d"): two digits, zero padded
StrfD(t) ==
    LET d == Civil(t)[3] IN IF d < 10 THEN "0" \o ToStr(d) ELSE ToStr(d)

\* str.lower() on a month abbreviation
Lower(s) ==
    CASE s = "Jan" -> "jan" [] s = "Feb" -> "feb" [] s = "Mar" -> "mar"
      [] s = "Apr" -> "apr" [] s = "May" -> "may" [] s = "Jun" -> "jun"
      [] s = "Jul" -> "jul" [] s = "Aug" -> "aug" [] s = "Sep" -> "sep"
      [] s = "Oct" -> "oct" [] s = "Nov" -> "nov" [] s = "Dec" -> "dec"

\* the (view name, args / kwargs) that the permalink decorator reverses
get_absolute_url_by_is_public(m) ==
    IF m.is_public
    THEN [view |-> "videostream_video_detail",
          year |-> StrfY(m.publish_date),
          month |-> Lower(StrfB(m.publish_date)),
          day |-> StrfD(m.publish_date), slug |-> m.slug]
    ELSE [view |-> "videostream_video_detail_id", id |-> m.id]

get_absolute_url(m) ==
    IF m.publish_date # None
    THEN [view |-> "videostream_video_detail",
          year |-> StrfY(m.publish_date),
          month |-> Lower(StrfB(m.publish_date)),
          day |-> StrfD(m.publish_date), slug |-> m.slug]
    ELSE [view |-> "videostream_video_detail_id", id |-> m.id]

GetAbsoluteUrl(c) ==
    /\ inst[c].id # NoId
    /\ ret' = [NoRet EXCEPT !.op = "get_absolute_url", !.ctx = c,
                            !.val = get_absolute_url(inst[c])]
    /\ UNCHANGED <<now, db, html5, inst, size_setting>>

(* ---------------------- BasicVideo and HTML5Video --------------------- *)

\* HTML5Video.basic_video = ForeignKey(BasicVideo): the owner must be a
\* persisted BasicVideo; several payload rows may name the same owner
IsAnyVideo(b) == b \in Ids

IsBasicVideo(b) == b \in Ids /\ db[b].kind = "BasicVideo"

AddHTML5Video(b, vt) ==
    /\ IsBasicVideo(b)
    /\ Len(html5) < MaxPayloads
    /\ html5' = Append(html5, [basic_video |-> b, video_type |-> vt])
    /\ ret' = [NoRet EXCEPT !.op = "add_html5video", !.ctx = b]
    /\ UNCHANGED <<now, db, inst, size_setting>>

\* VIDEO_TYPE choices, as get_video_type_display reads them
VIDEO_TYPE(v) ==
    CASE v = OGG -> "video/ogg"
      [] v = WEBM -> "video/webm"
      [] v = MP4 -> "vidoe/mp4"
      [] v = FLASH -> "video/flv"

GetVideoTypeDisplay(j) ==
    /\ j \in 1..Len(html5)
    /\ ret' = [NoRet EXCEPT !.op = "get_video_type_display", !.ctx = j,
                            !.val = VIDEO_TYPE(html5[j].video_type)]
    /\ UNCHANGED <<now, db, html5, inst, size_setting>>

\* The name under which a ForeignKey from HTML5Video shows on BasicVideo:
\* the manager html5video_set (the single object html5video would need a
\* OneToOneField).
ReverseAccessor == "html5video_set"

\* BasicVideo.video_type: defined on BasicVideo only; it reads the
\* attribute html5video of the instance.
video_type(m) ==
    IF m.kind # "BasicVideo" THEN [status |-> "AttributeError", val |-> ""]
    ELSE IF ReverseAccessor # "html5video"
         THEN [status |-> "AttributeError", val |-> ""]
    ELSE LET j == CHOOSE j \in 1..Len(html5) : html5[j].basic_video = m.id
         IN  [status |-> "ok", val |-> VIDEO_TYPE(html5[j].video_type)]

VideoType(c) ==
    /\ inst[c].kind # "none"
    /\ ret' = [NoRet EXCEPT !.op = "video_type", !.ctx = c,
                            !.status = video_type(inst[c]).status,
                            !.val = video_type(inst[c]).val]
    /\ UNCHANGED <<now, db, html5, inst, size_setting>>

(* ---------------------- FlashVideo.get_player_size -------------------- *)

\* str.split('x'): the pieces between the delimiters, empty ones included
RECURSIVE Split(_)
Split(s) ==
    IF s = <<>> THEN << <<>> >>
    ELSE LET rest == Split(Tail(s))
         IN  IF Head(s) = "x" THEN << <<>> >> \o rest
             ELSE << <<Head(s)>> \o Head(rest) >> \o Tail(rest)

RECURSIVE Join(_)
Join(s) == IF s = <<>> THEN "" ELSE Head(s) \o Join(Tail(s))

\* getattr(settings, 'VIDEOSTREAM_SIZE', '320x240')
SizeValue(v) ==
    IF v = Unset THEN <<"3", "2", "0", "x", "2", "4", "0">> ELSE v

get_player_size_exactly_two(v) ==
    LET size == Split(SizeValue(v))
    IN  IF Len(size) # 2 THEN [status |-> "IndexError", val |-> ""]
        ELSE [status |-> "ok",
              val |-> "width: " \o Join(size[1]) \o "px; height: "
                        \o Join(size[2]) \o "px;"]

get_player_size(v) ==
    LET size == Split(SizeValue(v))
    IN  IF Len(size) < 2 THEN [status |-> "IndexError", val |-> ""]
        ELSE [status |-> "ok",
              val |-> "width: " \o Join(size[1]) \o "px; height: "
                        \o Join(size[2]) \o "px;"]

GetPlayerSize ==
    /\ ret' = [NoRet EXCEPT !.op = "get_player_size",
                            !.status = get_player_size(size_setting).status,
                            !.val = get_player_size(size_setting).val]
    /\ UNCHANGED <<now, db, html5, inst, size_setting>>

(* ------------------------------ specifications ------------------------ *)

Init ==
    /\ now = 0
    /\ db = <<>>
    /\ html5 = <<>>
    /\ inst = [c \in Contexts |-> NoInst]
    /\ ret = NoRet
    /\ size_setting = Unset

\* One editing context working on base Video records: save, the latch,
\* modified_date, slug conflicts, the permalink.
Next ==
    \/ \E s \in Slugs, p \in BOOLEAN, pd \in {None, 0, MaxTime} :
          New(1, "Video", s, p, pd)
    \/ \E i \in 1..Cardinality(Slugs) : Load(1, i)
    \/ \E p \in BOOLEAN : SetPublic(1, p)
    \/ \E s \in Slugs : SetSlug(1, s)
    \/ Save(1)
    \/ GetAbsoluteUrl(1)

Spec == Init /\ [][Next]_vars

\* Records of every variant and their HTML5Video payloads, the clock at
\* its last value.
InitVariant ==
    /\ now = MaxTime
    /\ db = <<>>
    /\ html5 = <<>>
    /\ inst = [c \in Contexts |-> NoInst]
    /\ ret = NoRet
    /\ size_setting = Unset

NextVariant ==
    \/ \E k \in Kinds, s \in Slugs : New(1, k, s, FALSE, None)
    \/ \E i \in 1..Cardinality(Slugs) : Load(1, i)
    \/ \E s \in Slugs : SetSlug(1, s)
    \/ Save(1)
    \/ \E b \in 1..Cardinality(Slugs), vt \in {OGG, WEBM, MP4, FLASH} :
          AddHTML5Video(b, vt)
    \/ \E j \in 1..MaxPayloads : GetVideoTypeDisplay(j)
    \/ VideoType(1)

SpecVariant == InitVariant /\ [][NextVariant]_vars

\* Two editing contexts on one persisted record; each loads it, toggles
\* is_public on its own copy and saves.
InitRace ==
    /\ now = 0
    /\ db = << [kind |-> "Video", slug |-> "intro-clip", is_public |-> FALSE,
                publish_date |-> None, modified_date |-> 0] >>
    /\ html5 = <<>>
    /\ inst = [c \in Contexts |-> NoInst]
    /\ ret = NoRet
    /\ size_setting = Unset

NextRace ==
    \/ \E c \in Contexts : Load(c, 1)
    \/ \E c \in Contexts, p \in BOOLEAN : SetPublic(c, p)
    \/ \E c \in Contexts : Save(c)

SpecRace == InitRace /\ [][NextRace]_vars

\* get_player_size over every VIDEOSTREAM_SIZE value up to MaxLen characters
RECURSIVE Strings(_)
Strings(n) ==
    IF n = 0 THEN {<<>>}
    ELSE LET shorter == Strings(n - 1)
         IN  shorter \cup {Append(s, ch) : s \in shorter, ch \in Chars}

InitSize ==
    /\ now = 0
    /\ db = <<>>
    /\ html5 = <<>>
    /\ inst = [c \in Contexts |-> NoInst]
    /\ ret = NoRet
    /\ size_setting \in Strings(MaxLen) \cup {Unset}

NextSize == GetPlayerSize

SpecSize == InitSize /\ [][NextSize]_vars

(* ------------------------------- claims ------------------------------- *)

\* the record the last call acted on
Cur == inst[ret.ctx]

Saved == ret.op = "save"

\* C1: a save, or a change of is_public, of a record whose publish_date
\* already holds T leaves publish_date equal to T, in the instance and,
\* when the store accepts the write, in the persisted row.
C1_PublishLatchHolds ==
    [][\A c \in Contexts :
         (ret'.ctx = c /\ ret'.op \in {"save", "set_is_public"}
            /\ inst[c].publish_date # None)
         => /\ inst'[c].publish_date = inst[c].publish_date
            /\ (ret'.op = "save" /\ ret'.status = "ok")
                 => db'[inst'[c].id].publish_date = inst[c].publish_date]_vars

\* a later save, at a later time and with is_public true, of a record whose
\* publish_date the latch assigned earlier
C1_Witness ==
    /\ Saved /\ ret.status = "ok"
    /\ ret.pre.publish_date \notin {None, 0, MaxTime}
    /\ ret.pre.is_public
    /\ ret.t0 > ret.pre.publish_date
    /\ Cur.publish_date = ret.pre.publish_date

\* C2: after a save of a record whose publish_date was null, publish_date
\* is non-null and is a clock value of that call (between the clock read of
\* line 84 and the clock at return) if is_public, and still null otherwise.
C2_AutoAssignWhenUnset ==
    (Saved /\ ret.pre.publish_date = None)
    => IF ret.pre.is_public
       THEN /\ Cur.publish_date # None
            /\ ret.t0 <= Cur.publish_date
            /\ Cur.publish_date <= now
       ELSE Cur.publish_date = None

C2_Witness ==
    /\ Saved /\ ret.status = "ok"
    /\ ret.pre.publish_date = None /\ ret.pre.is_public
    /\ Cur.publish_date = now /\ now > 0

UniqueSlugs == \A i, j \in Ids : i # j => db[i].slug # db[j].slug

\* C3: no two persisted records, of whatever variant, share a slug; the save
\* of a new record whose slug a persisted record holds is rejected with an
\* error and leaves the persisted records as they were.
C3_SlugUnique ==
    [][/\ UniqueSlugs'
       /\ \A c \in Contexts :
            (ret'.op = "save" /\ ret'.ctx = c /\ inst[c].id = NoId
               /\ \E i \in Ids : db[i].slug = inst[c].slug)
            => (ret'.status = "IntegrityError" /\ db' = db)]_vars

\* a new record of one variant rejected because a record of another variant
\* holds its slug
C3_Witness ==
    /\ Saved /\ ret.status = "IntegrityError" /\ ret.pre.id = NoId
    /\ Len(db) = 2
    /\ \E i \in Ids : db[i].slug = Cur.slug /\ db[i].kind # Cur.kind

\* C4: when the store rejects the write, the record passed to save is left
\* as it was before the call; here for publish_date, the field a later
\* successful save would otherwise assign.
C4_NoPartialFailure ==
    (Saved /\ ret.status = "IntegrityError")
    => Cur.publish_date = ret.pre.publish_date

PayloadCount(i) ==
    CASE db[i].kind \in {"EmbedVideo", "FlashVideo"} -> 1
      [] db[i].kind = "BasicVideo" ->
           Cardinality({j \in 1..Len(html5) : html5[j].basic_video = i})
      [] OTHER -> 0

\* C5 as stated: every persisted record has exactly one variant payload.
C5_ExactlyOnePayload == \A i \in Ids : PayloadCount(i) = 1

\* C5: every HTML5Video payload belongs to one persisted record, and that
\* record is a BasicVideo (which may own none, one or several payloads).
C5_PayloadOwnedByBasicVideo ==
    \A j \in 1..Len(html5) :
        /\ html5[j].basic_video \in Ids
        /\ db[html5[j].basic_video].kind = "BasicVideo"

\* a BasicVideo with two payloads beside a record of another variant
C5_Witness ==
    \E i, k \in Ids :
        /\ db[i].kind = "BasicVideo" /\ PayloadCount(i) = 2
        /\ db[k].kind = "EmbedVideo"

\* the label table the claim gives
ClaimedLabel(v) ==
    CASE v = OGG -> "video/ogg"
      [] v = WEBM -> "video/webm"
      [] v = MP4 -> "video/mp4"
      [] v = FLASH -> "video/flv"

\* C6: video_type on a record with an HTML5Video payload returns the label
\* of that payload's video_type in the table ogg / webm / mp4 / flv, and
\* fails on a record with no such payload; the label of a payload is the
\* one of that table.
C6_VariantTypeLabel ==
    /\ ret.op = "video_type"
       => LET owned == {j \in 1..Len(html5) : html5[j].basic_video = Cur.id}
          IN  IF Cur.kind = "BasicVideo" /\ owned # {}
              THEN /\ ret.status = "ok"
                   /\ \E j \in owned :
                        ret.val = ClaimedLabel(html5[j].video_type)
              ELSE ret.status # "ok"
    /\ ret.op = "get_video_type_display"
       => ret.val = ClaimedLabel(html5[ret.ctx].video_type)

\* <<year, month, day>> as the permalink shows day 0, 1, 2, ...
Calendar ==
    << <<"2010", "dec", "30">>, <<"2010", "dec", "31">>,
       <<"2011", "jan", "01">>, <<"2011", "jan", "02">>,
       <<"2011", "jan", "03">>, <<"2011", "jan", "04">> >>

DatePath(m, u) ==
    /\ u.view = "videostream_video_detail"
    /\ <<u.year, u.month, u.day>> = Calendar[m.publish_date + 1]
    /\ u.slug = m.slug

IdPath(m, u) ==
    /\ u.view = "videostream_video_detail_id"
    /\ u.id = m.id /\ m.id # NoId

\* C7: right after a successful save with is_public true the permalink is
\* the date path of publish_date and the slug; for every persisted record
\* it is the date path exactly when publish_date is set and the id path
\* otherwise.
C7_CanonicalUrl ==
    /\ (Saved /\ ret.status = "ok" /\ Cur.is_public)
       => DatePath(Cur, get_absolute_url(Cur))
    /\ ret.op = "get_absolute_url"
       => IF Cur.publish_date # None
          THEN DatePath(Cur, ret.val)
          ELSE IdPath(Cur, ret.val)

\* the permalink of a public record whose publish_date the latch set on
\* day 1 (the caller supplies day 0 or MaxTime only)
C7_Witness ==
    /\ ret.op = "get_absolute_url"
    /\ Cur.is_public /\ Cur.publish_date = 1 /\ Cur.slug = "intro-clip"
    /\ ret.val = [view |-> "videostream_video_detail", year |-> "2010",
                  month |-> "dec", day |-> "31", slug |-> "intro-clip"]

RECURSIVE CountX(_)
CountX(s) ==
    IF s = <<>> THEN 0
    ELSE (IF Head(s) = "x" THEN 1 ELSE 0) + CountX(Tail(s))

RECURSIVE BeforeX(_)
BeforeX(s) ==
    IF s = <<>> \/ Head(s) = "x" THEN ""
    ELSE Head(s) \o BeforeX(Tail(s))

RECURSIVE AfterX(_)
AfterX(s) ==
    IF s = <<>> THEN <<>>
    ELSE IF Head(s) = "x" THEN Tail(s) ELSE AfterX(Tail(s))

Styled(v) ==
    "width: " \o BeforeX(v) \o "px; height: " \o BeforeX(AfterX(v)) \o "px;"

C10_PersistedLatchSurvives ==
    [][\A i \in Ids :
         db[i].publish_date # None
         => db'[i].publish_date = db[i].publish_date]_vars

\* C10: a successful save writes the saving copy's publish_date (last write
\* wins); it leaves a non-null persisted publish_date as it is whenever the
\* copy carries that same value, and replaces it only from a stale copy,
\* one whose publish_date is not the persisted one when save is called.
C10_LastWriteWins ==
    [][\A c \in Contexts :
         (ret'.op = "save" /\ ret'.ctx = c /\ ret'.status = "ok")
         => LET i == inst'[c].id
            IN  /\ db'[i].publish_date = inst'[c].publish_date
                /\ (inst[c].publish_date # None)
                     => db'[i].publish_date = inst[c].publish_date
                /\ (i \in Ids /\ db[i].publish_date # None
                      /\ db'[i].publish_date # db[i].publish_date)
                     => inst[c].publish_date # db[i].publish_date]_vars

\* both contexts hold the record; the one whose copy carries the persisted
\* publish_date has saved while the other still holds a copy without it
C10_Witness ==
    /\ Saved /\ ret.status = "ok"
    /\ \A c \in Contexts : inst[c].id = 1
    /\ ret.pre.publish_date # None
    /\ db[1].publish_date = ret.pre.publish_date
    /\ \E c \in Contexts : inst[c].publish_date = None


=============================================================================
